---- MODULE Spec2Model ----
(***************************************************************************)
(* A model of the onnx-runner benchmark driver (src/src/main.cpp): one     *)
(* single-threaded run of main(), from argument validation through the     *)
(* Warmup, Silence, battery-statistics reset and Measurement phases to the *)
(* metrics, the results summary and the CSV export.                        *)
(*                                                                         *)
(* The environment of the program is nondeterministic: the command line,   *)
(* whether the model file exists, the steady clock (which only ever moves  *)
(* forward, by an amount the program does not control), the outcome of     *)
(* every inference call, of system() and of the CSV file writes.           *)
(***************************************************************************)
EXTENDS Integers, Sequences, FiniteSets, TLC

VARIABLES
    pc,                     \* position of main()
    argv,                   \* argv[1..argc-1]; every argument a sequence of characters
    files,                  \* the file system: a set of [path, content]
    now,                    \* std::chrono::steady_clock, in clock units
    timestamp,              \* main: const std::string timestamp
    warmup_seconds,         \* main: const int warmup_seconds
    silence_seconds,        \* main: const int silence_seconds
    measurement_seconds,    \* main: const int measurement_seconds
    warmup_iterations,      \* main: uint64_t warmup_iterations
    warmup_elapsed_ms,      \* main: double warmup_elapsed_ms
    start,                  \* main (warmup block): const auto start
    deadline,               \* main (warmup block): const auto deadline
    measurement_iterations, \* main: uint64_t measurement_iterations
    measurement_start,      \* main: const auto measurement_start
    measurement_deadline,   \* main: const auto measurement_deadline
    measurement_elapsed_ms, \* main: const auto measurement_elapsed_ms
    first_check,            \* the clock readings of the first Measurement loop check
    us_per_inference,       \* main: const double us_per_inference
    total_time_sec,         \* main: const double total_time_sec
    throughput,             \* main: const double throughput
    reset_result,           \* main: const int reset_result, << >> before system()
    export_result,          \* what export_performance_metrics_csv returned, << >> before
    exit_status,            \* the process exit status, << >> while main() runs
    out,                    \* what was written to std::cout and std::cerr, in order
    inference_calls,        \* number of run_onnx_inference calls started
    engine_errors,          \* number of Ort::Exception raised by inference calls
    reset_requests,         \* number of "dumpsys batterystats --reset" requests
    sleeps,                 \* the durations (ms) passed to sleep_for, in order
    onnx_model,             \* what the model file declares: loadable, inputs, outputs
    live,                   \* run_onnx_inference: the objects alive in the call, in
                            \* the order they were constructed
    input_shapes,           \* run_onnx_inference: std::vector<...> input_shapes
    input_data_storage,     \* run_onnx_inference: the sizes of the vectors of
                            \* input_data_storage
    input_tensors,          \* run_onnx_inference: std::vector<Ort::Value> input_tensors
    engine_runs             \* the session.Run requests made, each with its number of inputs

vars == <<pc, argv, files, now, timestamp, warmup_seconds, silence_seconds,
          measurement_seconds, warmup_iterations, warmup_elapsed_ms, start, deadline,
          measurement_iterations, measurement_start, measurement_deadline,
          measurement_elapsed_ms, first_check, us_per_inference, total_time_sec,
          throughput, reset_result, export_result, exit_status, out,
          inference_calls, engine_errors, reset_requests, sleeps,
          onnx_model, live, input_shapes, input_data_storage, input_tensors, engine_runs>>

\* The state of run_onnx_inference and of the model it loads.
Invoker == <<onnx_model, live, input_shapes, input_data_storage, input_tensors, engine_runs>>

(***************************************************************************)
(* Program constants                                                       *)
(***************************************************************************)
STATS_RESET_DELAY_MS == 500
ExpectedArgc == 5
MsPerSecond == 1000
MODEL_BASE_PATH == "/data/local/tmp/models"
MEASUREMENTS_DIR == "/data/local/tmp/measurements"

(***************************************************************************)
(* Bounds of the model                                                     *)
(***************************************************************************)
\* The largest warmup and measurement durations, in seconds, given on the
\* command line.
MaxWarmupSeconds == 1
MaxSeconds == 2
\* The number of inference calls of one phase that may take less than a
\* clock jump; further calls of that phase take at least one jump.
MaxIter == 2
\* The resolution of the steady clock: clock units per millisecond.
UnitsPerMs == 2

(***************************************************************************)
(* The steady clock                                                        *)
(***************************************************************************)
\* std::chrono::seconds(n) and std::chrono::milliseconds(n) as clock durations
Seconds(n) == n * MsPerSecond * UnitsPerMs
Milliseconds(n) == n * UnitsPerMs

\* DurationCastMs with the duration cast to whole seconds.
DurationCastMs_Seconds(d) == d \div (UnitsPerMs * MsPerSecond)

\* std::chrono::duration_cast<std::chrono::milliseconds>(d).count(): truncates
DurationCastMs(d) == d \div UnitsPerMs

\* The amounts by which the clock may jump forward, while an inference call
\* runs or while the thread is not scheduled: half a second, or a second.
Jumps == {Milliseconds(STATS_RESET_DELAY_MS), Seconds(1)}

(***************************************************************************)
(* Command line: std::atoi on an argument                                  *)
(***************************************************************************)
Digits == <<"0", "1", "2", "3", "4", "5", "6", "7", "8", "9">>
IsDigit(c) == \E i \in 1..Len(Digits) : Digits[i] = c
DigitValue(c) == (CHOOSE i \in 1..Len(Digits) : Digits[i] = c) - 1
IsSpace(c) == c \in {" ", "\t", "\n"}

RECURSIVE SkipSpaces(_)
SkipSpaces(s) ==
    IF s # << >> /\ IsSpace(Head(s)) THEN SkipSpaces(Tail(s)) ELSE s

RECURSIVE ParseDigits(_, _)
ParseDigits(s, acc) ==
    IF s # << >> /\ IsDigit(Head(s))
    THEN ParseDigits(Tail(s), acc * 10 + DigitValue(Head(s)))
    ELSE acc

\* std::atoi: leading white space, an optional sign, then digits up to the
\* first character that is no digit; 0 when there is no digit.
atoi(s) ==
    LET t == SkipSpaces(s)
        signed == t # << >> /\ Head(t) \in {"-", "+"}
        negative == t # << >> /\ Head(t) = "-"
        magnitude == ParseDigits(IF signed THEN Tail(t) ELSE t, 0)
    IN  IF negative THEN 0 - magnitude ELSE magnitude

\* The decimal digits of a duration of at most 9 seconds, as typed.
Typed(n) == <<Digits[n + 1]>>

\* The duration arguments tried: every duration up to max and a negative one;
\* for the warmup and the measurement also one that is no number; for the
\* silence no duration, one second and a negative one.
ArgStrings(max) == {Typed(n) : n \in 0..max} \cup {<<"-", "1">>}
NoNumber == {<<"x">>}
SilenceArgs == {<<"0">>, <<"1">>, <<"-", "1">>}

ModelNames == {"model.onnx", "absent.onnx"}

\* The command lines tried: the four-argument form, a two-argument form and
\* no argument at all.
CommandLines ==
    {<<m, w, s, d>> : m \in ModelNames,
                      w \in ArgStrings(MaxWarmupSeconds) \cup NoNumber,
                      s \in SilenceArgs,
                      d \in ArgStrings(MaxSeconds) \cup NoNumber}
    \cup {<<m, d>> : m \in ModelNames, d \in ArgStrings(MaxSeconds)}
    \cup {<< >>}

argc == Len(argv) + 1
model_filename == argv[1]

(***************************************************************************)
(* File system                                                             *)
(***************************************************************************)
\* fs::path(Config::MODEL_BASE_PATH) / model_filename
model_path == <<MODEL_BASE_PATH, model_filename>>

\* fs::exists(p)
Exists(p) == \E f \in files : f.path = p

\* The file name export_performance_metrics_csv writes to.
OutputFile(name, ts) == <<MEASUREMENTS_DIR, name, ts, "_performance.csv">>

CsvFiles == {f \in files : f.path[1] = MEASUREMENTS_DIR}

(***************************************************************************)
(* Arithmetic on double                                                    *)
(***************************************************************************)
\* The quotient of two doubles that hold integers. The quotient is kept as
\* the pair it was computed from; a zero divisor gives the IEEE 754 results
\* inf or nan.
DoubleDiv(n, d) ==
    [kind |-> IF d # 0 THEN "finite" ELSE IF n = 0 THEN "nan" ELSE "inf",
     num |-> n, den |-> d]

NoDouble == [kind |-> "unset", num |-> 0, den |-> 0]

\* ExitStatus as it would be had the catch blocks returned 1.
ExitStatus_One(ret) == IF ret < 0 THEN 1 ELSE ret

\* The value main() returns as the status the parent process sees.
ExitStatus(ret) == ret % 256

(***************************************************************************)
(* Initial state: main() is entered                                        *)
(***************************************************************************)
Init ==
    /\ pc = "start"
    /\ argv \in CommandLines
    /\ files = {[path |-> <<MODEL_BASE_PATH, "model.onnx">>, content |-> <<"onnx">>]}
    /\ now = 0
    /\ timestamp = ""
    /\ warmup_seconds = 0
    /\ silence_seconds = 0
    /\ measurement_seconds = 0
    /\ warmup_iterations = 0
    /\ warmup_elapsed_ms = 0
    /\ start = 0
    /\ deadline = 0
    /\ measurement_iterations = 0
    /\ measurement_start = 0
    /\ measurement_deadline = 0
    /\ measurement_elapsed_ms = 0
    /\ first_check = << >>
    /\ us_per_inference = NoDouble
    /\ total_time_sec = NoDouble
    /\ throughput = NoDouble
    /\ reset_result = << >>
    /\ export_result = << >>
    /\ exit_status = << >>
    /\ out = << >>
    /\ inference_calls = 0
    /\ engine_errors = 0
    /\ reset_requests = 0
    /\ sleeps = << >>
    /\ onnx_model = [loadable |-> TRUE, inputs |-> << >>, outputs |-> 0]
    /\ live = << >>
    /\ input_shapes = << >>
    /\ input_data_storage = << >>
    /\ input_tensors = << >>
    /\ engine_runs = << >>

(***************************************************************************)
(* Steps of main()                                                         *)
(***************************************************************************)
\* return ret; from main()
Return(ret) ==
    /\ pc' = "exited"
    /\ exit_status' = <<ExitStatus(ret)>>

Locals == <<timestamp, warmup_seconds, silence_seconds, measurement_seconds,
            warmup_iterations, warmup_elapsed_ms, start, deadline,
            measurement_iterations, measurement_start, measurement_deadline,
            measurement_elapsed_ms, first_check, us_per_inference, total_time_sec,
            throughput, reset_result, export_result>>
Effects == <<files, inference_calls, engine_errors, reset_requests, sleeps>>

\* ArgcOk with a two-argument form let through.
ArgcOk_Legacy == argc = ExpectedArgc \/ argc = 3

\* if (argc != 5) { usage; return 1; }
ArgcOk == argc = ExpectedArgc

CheckArgc ==
    /\ pc = "start"
    /\ IF ArgcOk
       THEN /\ pc' = "parse"
            /\ UNCHANGED <<exit_status, out>>
       ELSE /\ out' = Append(out, "usage")
            /\ Return(1)
    /\ UNCHANGED <<Invoker, argv, now, Locals, Effects>>

\* DurationsOk with a measurement of 0 seconds let through.
DurationsOk_ZeroMeasurement(w, s, m) == ~(w < 0 \/ s < 0 \/ m < 0)

\* if (warmup_seconds < 0 || silence_seconds < 0 || measurement_seconds <= 0)
DurationsOk(w, s, m) == ~(w < 0 \/ s < 0 \/ m <= 0)

ParseArgs ==
    /\ pc = "parse"
    /\ warmup_seconds' = atoi(argv[2])
    /\ silence_seconds' = atoi(argv[3])
    /\ measurement_seconds' = atoi(argv[4])
    /\ IF DurationsOk(warmup_seconds', silence_seconds', measurement_seconds')
       THEN /\ pc' = "check_model"
            /\ UNCHANGED <<exit_status, out>>
       ELSE /\ out' = Append(out, "error: durations")
            /\ Return(1)
    /\ UNCHANGED <<Invoker, argv, now, timestamp, warmup_iterations, warmup_elapsed_ms, start,
                   deadline, measurement_iterations, measurement_start,
                   measurement_deadline, measurement_elapsed_ms, first_check,
                   us_per_inference, total_time_sec, throughput, reset_result,
                   export_result, Effects>>

\* if (!fs::exists(model_path)) { error; return 1; }
CheckModel ==
    /\ pc = "check_model"
    /\ IF Exists(model_path)
       THEN /\ pc' = "banner"
            /\ UNCHANGED <<exit_status, out>>
       ELSE /\ out' = Append(out, "error: model not found")
            /\ Return(1)
    /\ UNCHANGED <<Invoker, argv, now, Locals, Effects>>

\* get_current_timestamp(): the local time as YYYYMMDD_HHMMSS, or the epoch
\* when localtime_r fails.
Timestamps == {"20261105_101500", "19700101_000000"}

Banner ==
    /\ pc = "banner"
    /\ timestamp' \in Timestamps
    /\ out' = Append(out, "banner")
    /\ pc' = "warmup"
    /\ UNCHANGED <<Invoker, argv, now, warmup_seconds, silence_seconds, measurement_seconds,
                   warmup_iterations, warmup_elapsed_ms, start, deadline,
                   measurement_iterations, measurement_start, measurement_deadline,
                   measurement_elapsed_ms, first_check, us_per_inference,
                   total_time_sec, throughput, reset_result, export_result,
                   exit_status, Effects>>

(***************************************************************************)
(* Inference calls and the passing of time                                 *)
(***************************************************************************)
\* How a call of run_onnx_inference ends: it returns, or an Ort::Exception
\* leaves it.
InferenceOutcomes == {"ok", "ort_exception"}

\* InferenceFailed with the exception swallowed: the loop goes on.
InferenceFailed_Continue(phase) ==
    /\ engine_errors' = engine_errors + 1
    /\ out' = Append(out, phase)
    /\ pc' = IF phase = "error: warmup" THEN "warmup_check" ELSE "measurement_check"
    /\ UNCHANGED exit_status

\* catch (const Ort::Exception &e) { message; return -1; }
InferenceFailed(phase) ==
    /\ engine_errors' = engine_errors + 1
    /\ out' = Append(out, phase)
    /\ Return(0 - 1)

\* PhaseEnabled with a phase of no duration entered all the same.
PhaseEnabled_Always(secs) == secs >= 0

\* if (warmup_seconds > 0), if (silence_seconds > 0): a phase of no duration
\* is skipped.
PhaseEnabled(secs) == secs > 0

\* How long the n+1-th inference call of a phase may take: no time the clock
\* can tell, or a jump.
CallDurations(n) == IF n < MaxIter THEN {0} \cup Jumps ELSE Jumps

\* The time that may pass between the clock reading that starts a phase and
\* the first reading of its loop.
Gaps == {0} \cup Jumps

\* The time that may pass between the last reading of a loop and the reading
\* that ends the phase: none, or one unit of the clock.
ReadGaps == {0, 1}

\* What system() may return: the wait status of a command that succeeded, or
\* of one that failed.
SystemResults == {0, 32512}

(***************************************************************************)
(* Phase 1: Warmup                                                         *)
(***************************************************************************)
\* Deadline with the duration taken as milliseconds.
Deadline_Millis(from, secs) == from + Milliseconds(secs)

\* start + std::chrono::seconds(n)
Deadline(from, secs) == from + Seconds(secs)

\* LoopContinues with the loop never entered.
LoopContinues_Never(reading, limit) == FALSE

\* LoopContinues with the loops left once a call has been made.
LoopContinues_OneCall(reading, limit) == reading < limit /\ inference_calls = 0

\* LoopContinues with a reading at the deadline still inside the phase.
LoopContinues_Inclusive(reading, limit) == reading <= limit

\* while (clock::now() < deadline)
LoopContinues(reading, limit) == reading < limit

WarmupEnter ==
    /\ pc = "warmup"
    /\ IF PhaseEnabled(warmup_seconds)
       THEN /\ out' = Append(out, "phase: warmup")
            /\ start' = now
            /\ deadline' = Deadline(now, warmup_seconds)
            /\ \E d \in Gaps : now' = now + d
            /\ pc' = "warmup_check"
       ELSE /\ pc' = "silence"
            /\ UNCHANGED <<out, start, deadline, now>>
    /\ UNCHANGED <<Invoker, argv, timestamp, warmup_seconds, silence_seconds,
                   measurement_seconds, warmup_iterations, warmup_elapsed_ms,
                   measurement_iterations, measurement_start, measurement_deadline,
                   measurement_elapsed_ms, first_check, us_per_inference,
                   total_time_sec, throughput, reset_result, export_result,
                   exit_status, Effects>>

WarmupCheck ==
    /\ pc = "warmup_check"
    /\ pc' = IF LoopContinues(now, deadline) THEN "warmup_call" ELSE "warmup_end"
    /\ UNCHANGED <<Invoker, argv, now, Locals, exit_status, out, Effects>>

WarmupCall ==
    /\ pc = "warmup_call"
    /\ inference_calls' = inference_calls + 1
    /\ \E d \in CallDurations(warmup_iterations) : now' = now + d
    /\ \E outcome \in InferenceOutcomes :
          IF outcome = "ok"
          THEN /\ warmup_iterations' = warmup_iterations + 1
               /\ pc' = "warmup_check"
               /\ UNCHANGED <<engine_errors, out, exit_status>>
          ELSE /\ InferenceFailed("error: warmup")
               /\ UNCHANGED warmup_iterations
    /\ UNCHANGED <<Invoker, argv, timestamp, warmup_seconds, silence_seconds, measurement_seconds,
                   warmup_elapsed_ms, start, deadline, measurement_iterations,
                   measurement_start, measurement_deadline, measurement_elapsed_ms,
                   first_check, us_per_inference, total_time_sec, throughput,
                   reset_result, export_result, files, reset_requests, sleeps>>

WarmupEnd ==
    /\ pc = "warmup_end"
    /\ \E d \in ReadGaps : now' = now + d
    /\ warmup_elapsed_ms' = DurationCastMs(now' - start)
    /\ out' = Append(out, "warmup completed")
    /\ pc' = "silence"
    /\ UNCHANGED <<Invoker, argv, timestamp, warmup_seconds, silence_seconds, measurement_seconds,
                   warmup_iterations, start, deadline, measurement_iterations,
                   measurement_start, measurement_deadline, measurement_elapsed_ms,
                   first_check, us_per_inference, total_time_sec, throughput,
                   reset_result, export_result, exit_status, Effects>>

(***************************************************************************)
(* Phase 2: Silence, and the reset of the battery statistics               *)
(***************************************************************************)
\* SleepFor with a sleep that returns at once.
SleepFor_NoWait(ms) ==
    /\ sleeps' = Append(sleeps, ms)
    /\ now' = now

\* std::this_thread::sleep_for(ms)
SleepFor(ms) ==
    /\ sleeps' = Append(sleeps, ms)
    /\ now' = now + Milliseconds(ms)

Silence ==
    /\ pc = "silence"
    /\ IF PhaseEnabled(silence_seconds)
       THEN /\ SleepFor(silence_seconds * MsPerSecond)
            /\ out' = out \o <<"phase: silence", "silence completed">>
       ELSE UNCHANGED <<sleeps, now, out>>
    /\ pc' = "reset"
    /\ UNCHANGED <<Invoker, argv, Locals, exit_status, files, inference_calls, engine_errors,
                   reset_requests>>

\* The message that follows system("dumpsys batterystats --reset ...").
ResetMessage(result) == IF result = 0 THEN "reset ok" ELSE "warning: reset failed"

\* AfterReset without the delay that follows the request.
AfterReset_NoDelay(result) == "measurement"

\* AfterReset with a failed request ending the run.
AfterReset_Abort(result) == IF result = 0 THEN "reset_delay" ELSE "exited"

\* Where main() goes after the reset request.
AfterReset(result) == "reset_delay"

ResetStats ==
    /\ pc = "reset"
    /\ reset_requests' = reset_requests + 1
    /\ \E r \in SystemResults :
          /\ reset_result' = <<r>>
          /\ out' = out \o <<"phase: reset", ResetMessage(r)>>
          /\ pc' = AfterReset(r)
    /\ UNCHANGED <<Invoker, argv, now, timestamp, warmup_seconds, silence_seconds,
                   measurement_seconds, warmup_iterations, warmup_elapsed_ms, start,
                   deadline, measurement_iterations, measurement_start,
                   measurement_deadline, measurement_elapsed_ms, first_check,
                   us_per_inference, total_time_sec, throughput, export_result,
                   exit_status, files, inference_calls, engine_errors, sleeps>>

ResetDelay ==
    /\ pc = "reset_delay"
    /\ SleepFor(STATS_RESET_DELAY_MS)
    /\ pc' = "measurement"
    /\ UNCHANGED <<Invoker, argv, Locals, exit_status, out, files, inference_calls,
                   engine_errors, reset_requests>>

(***************************************************************************)
(* Phase 3: Measurement                                                    *)
(***************************************************************************)
MeasurementEnter ==
    /\ pc = "measurement"
    /\ out' = Append(out, "phase: measurement")
    /\ measurement_iterations' = 0
    /\ measurement_start' = now
    /\ measurement_deadline' = Deadline(now, measurement_seconds)
    /\ \E d \in Gaps : now' = now + d
    /\ pc' = "measurement_check"
    /\ UNCHANGED <<Invoker, argv, timestamp, warmup_seconds, silence_seconds,
                   measurement_seconds, warmup_iterations, warmup_elapsed_ms, start,
                   deadline, measurement_elapsed_ms, first_check, us_per_inference,
                   total_time_sec, throughput, reset_result, export_result,
                   exit_status, Effects>>

MeasurementCheck ==
    /\ pc = "measurement_check"
    /\ first_check' = IF first_check = << >> THEN <<now>> ELSE first_check
    /\ pc' = IF LoopContinues(now, measurement_deadline)
             THEN "measurement_call" ELSE "measurement_end"
    /\ UNCHANGED <<Invoker, argv, now, timestamp, warmup_seconds, silence_seconds, measurement_seconds,
                   warmup_iterations, warmup_elapsed_ms, start, deadline,
                   measurement_iterations, measurement_start, measurement_deadline,
                   measurement_elapsed_ms, us_per_inference, total_time_sec,
                   throughput, reset_result, export_result, exit_status, out, Effects>>

MeasurementCall ==
    /\ pc = "measurement_call"
    /\ inference_calls' = inference_calls + 1
    /\ \E d \in CallDurations(measurement_iterations) : now' = now + d
    /\ \E outcome \in InferenceOutcomes :
          IF outcome = "ok"
          THEN /\ measurement_iterations' = measurement_iterations + 1
               /\ pc' = "measurement_check"
               /\ UNCHANGED <<engine_errors, out, exit_status>>
          ELSE /\ InferenceFailed("error: measurement")
               /\ UNCHANGED measurement_iterations
    /\ UNCHANGED <<Invoker, argv, timestamp, warmup_seconds, silence_seconds, measurement_seconds,
                   warmup_iterations, warmup_elapsed_ms, start, deadline,
                   measurement_start, measurement_deadline, measurement_elapsed_ms,
                   first_check, us_per_inference, total_time_sec, throughput,
                   reset_result, export_result, files, reset_requests, sleeps>>

MeasurementEnd ==
    /\ pc = "measurement_end"
    /\ \E d \in ReadGaps : now' = now + d
    /\ measurement_elapsed_ms' = DurationCastMs(now' - measurement_start)
    /\ out' = Append(out, "measurement completed")
    /\ pc' = "metrics"
    /\ UNCHANGED <<Invoker, argv, timestamp, warmup_seconds, silence_seconds, measurement_seconds,
                   warmup_iterations, warmup_elapsed_ms, start, deadline,
                   measurement_iterations, measurement_start, measurement_deadline,
                   first_check, us_per_inference, total_time_sec, throughput,
                   reset_result, export_result, exit_status, Effects>>

(***************************************************************************)
(* Metrics, results summary and CSV export                                 *)
(***************************************************************************)
\* (measurement_elapsed_ms * 1000.0) / measurement_iterations
UsPerInference(elapsed_ms, iterations) == DoubleDiv(elapsed_ms * 1000, iterations)
\* measurement_elapsed_ms / 1000.0
TotalTimeSec(elapsed_ms) == DoubleDiv(elapsed_ms, 1000)
\* measurement_iterations * 1000.0 / measurement_elapsed_ms
Throughput(elapsed_ms, iterations) == DoubleDiv(iterations * 1000, elapsed_ms)

Metrics ==
    /\ pc = "metrics"
    /\ us_per_inference' = UsPerInference(measurement_elapsed_ms, measurement_iterations)
    /\ total_time_sec' = TotalTimeSec(measurement_elapsed_ms)
    /\ throughput' = Throughput(measurement_elapsed_ms, measurement_iterations)
    /\ pc' = "report"
    /\ UNCHANGED <<Invoker, argv, now, timestamp, warmup_seconds, silence_seconds,
                   measurement_seconds, warmup_iterations, warmup_elapsed_ms, start,
                   deadline, measurement_iterations, measurement_start,
                   measurement_deadline, measurement_elapsed_ms, first_check,
                   reset_result, export_result, exit_status, out, Effects>>

\* The results summary, then system("mkdir -p <measurements dir>") whose
\* result main() does not read.
Report ==
    /\ pc = "report"
    /\ out' = Append(out, "results")
    /\ pc' = "export"
    /\ UNCHANGED <<Invoker, argv, now, Locals, exit_status, Effects>>

\* A double written with std::fixed and std::setprecision(3): the integral
\* part and three decimals, rounded to nearest; inf and nan are written as such.
Fixed3(x) ==
    IF x.kind = "finite"
    THEN LET whole == x.num \div x.den
             milli == (2 * 1000 * (x.num % x.den) + x.den) \div (2 * x.den)
         IN  [text |-> "finite",
              whole |-> IF milli = 1000 THEN whole + 1 ELSE whole,
              milli |-> IF milli = 1000 THEN 0 ELSE milli]
    ELSE [text |-> x.kind, whole |-> 0, milli |-> 0]

CsvHeader == <<"model", "timestamp", "measurement_iterations", "measurement_elapsed_ms",
               "us_per_inference", "total_time_sec", "warmup_iterations",
               "warmup_elapsed_ms">>

\* CsvRow with the measurement counter written in the warmup column too.
CsvRow_MeasurementTwice(model, ts, m_iterations, m_elapsed_ms, us, total, w_iterations, w_elapsed_ms) ==
    <<model, ts, m_iterations, Fixed3(DoubleDiv(m_elapsed_ms, 1)), Fixed3(us),
      Fixed3(total), m_iterations, Fixed3(DoubleDiv(m_elapsed_ms, 1))>>

\* The data row export_performance_metrics_csv writes from its parameters.
CsvRow(model, ts, m_iterations, m_elapsed_ms, us, total, w_iterations, w_elapsed_ms) ==
    <<model, ts, m_iterations, Fixed3(DoubleDiv(m_elapsed_ms, 1)), Fixed3(us),
      Fixed3(total), w_iterations, Fixed3(DoubleDiv(w_elapsed_ms, 1))>>

\* How the file operations of export_performance_metrics_csv may end.
ExportOutcomes == {"open failed", "write failed", "written"}

\* std::ofstream file(output_file) creates or truncates the file.
WriteFile(path, content) ==
    {f \in files : f.path # path} \cup {[path |-> path, content |-> content]}

\* export_performance_metrics_csv(...) as main() calls it.
ExportCsv ==
    /\ pc = "export"
    /\ LET path == OutputFile(model_filename, timestamp)
           row == CsvRow(model_filename, timestamp, measurement_iterations,
                         measurement_elapsed_ms, us_per_inference, total_time_sec,
                         warmup_iterations, warmup_elapsed_ms)
       IN  \E outcome \in ExportOutcomes :
             CASE outcome = "open failed" ->
                    /\ out' = Append(out, "warning: could not create file")
                    /\ export_result' = <<FALSE>>
                    /\ UNCHANGED files
               [] outcome = "write failed" ->
                    /\ \E written \in {<< >>, <<CsvHeader>>} :
                          files' = WriteFile(path, written)
                    /\ out' = Append(out, "warning: error writing file")
                    /\ export_result' = <<FALSE>>
               [] outcome = "written" ->
                    /\ files' = WriteFile(path, <<CsvHeader, row>>)
                    /\ out' = Append(out, "exported")
                    /\ export_result' = <<TRUE>>
    /\ pc' = "return"
    /\ UNCHANGED <<Invoker, argv, now, timestamp, warmup_seconds, silence_seconds,
                   measurement_seconds, warmup_iterations, warmup_elapsed_ms, start,
                   deadline, measurement_iterations, measurement_start,
                   measurement_deadline, measurement_elapsed_ms, first_check,
                   us_per_inference, total_time_sec, throughput, reset_result,
                   exit_status, inference_calls, engine_errors, reset_requests, sleeps>>

\* MainReturnValue with a failed export reported as a failed run.
MainReturnValue_Export(exported) == IF exported THEN 0 ELSE 1

\* The value main() returns after the export, whatever the export returned.
MainReturnValue(exported) == 0

Finish ==
    /\ pc = "return"
    /\ Return(MainReturnValue(export_result[1]))
    /\ UNCHANGED <<Invoker, argv, now, Locals, out, Effects>>

(***************************************************************************)
(* The specification                                                       *)
(***************************************************************************)
Next ==
    \/ CheckArgc
    \/ ParseArgs
    \/ CheckModel
    \/ Banner
    \/ WarmupEnter
    \/ WarmupCheck
    \/ WarmupCall
    \/ WarmupEnd
    \/ Silence
    \/ ResetStats
    \/ ResetDelay
    \/ MeasurementEnter
    \/ MeasurementCheck
    \/ MeasurementCall
    \/ MeasurementEnd
    \/ Metrics
    \/ Report
    \/ ExportCsv
    \/ Finish

Spec == Init /\ [][Next]_vars

\* The run of a program that is scheduled: main() has one thread, and as long
\* as it has a next step it takes it, every call, sleep and system() returning.
FairSpec == Init /\ [][Next]_vars /\ WF_vars(Next)

(***************************************************************************)
(* run_onnx_inference, step by step, inside the loop that calls it         *)
(***************************************************************************)
DEFAULT_DYNAMIC_DIM == 1

\* The largest declared dimension and the largest number of dimensions of an
\* input, and the number of calls the loop makes before its deadline.
MaxDim == 2
MaxRank == 2
MaxCalls == 2

\* The declared dimensions tried: dynamic (-1), empty (0) and concrete ones.
DimValues == (0 - 1)..MaxDim

\* A declared shape whose element count is 2^64.
HugeShape == <<65536, 65536, 65536, 65536>>

\* The declared shapes tried: every shape of at most MaxRank dimensions, an
\* image batch of unknown size, and the huge shape.
Shapes ==
    UNION {[1..r -> DimValues] : r \in 0..MaxRank}
    \cup {<<0 - 1, 3, 224, 224>>, HugeShape}

\* The model files tried: one the engine cannot load, one with no input, and
\* models with one and with two inputs.
Models ==
    {[loadable |-> FALSE, inputs |-> << >>, outputs |-> 0],
     [loadable |-> TRUE, inputs |-> << >>, outputs |-> 1]}
    \cup {[loadable |-> TRUE, inputs |-> <<s>>, outputs |-> 1] : s \in Shapes}
    \cup {[loadable |-> TRUE, inputs |-> <<s, <<2, 0 - 1>>>>, outputs |-> 2] : s \in Shapes}

\* session.GetInputCount(), session.GetOutputCount()
num_input_nodes == Len(onnx_model.inputs)
num_output_nodes == onnx_model.outputs

\* if (dim < 0) { dim = Config::DEFAULT_DYNAMIC_DIM; }
ResolveDim(dim) == IF dim < 0 THEN DEFAULT_DYNAMIC_DIM ELSE dim

\* for (auto &dim: input_shape): the shape with its dimensions resolved in place
ResolveShape(shape) == [k \in 1..Len(shape) |-> ResolveDim(shape[k])]

\* size_t is an unsigned integer of SizeTBytes bytes; a value of the type is
\* written as its bytes, least significant first.
ByteBase == 256
SizeTBytes == 8

RECURSIVE Bytes(_, _)
Bytes(n, width) ==
    IF width = 0 THEN << >> ELSE <<n % ByteBase>> \o Bytes(n \div ByteBase, width - 1)

\* static_cast<size_t>(dim) of a dimension that is not negative
SizeT(n) == Bytes(n, SizeTBytes)

\* x *= n in the width of x: the bytes of the product that fit, the rest lost
RECURSIVE TimesCarry(_, _, _)
TimesCarry(x, n, carry) ==
    IF x = << >> THEN << >>
    ELSE LET t == Head(x) * n + carry
         IN  <<t % ByteBase>> \o TimesCarry(Tail(x), n, t \div ByteBase)

Times(x, n) == TimesCarry(x, n, 0)

\* input_tensor_size, from 1, multiplied by every resolved dimension in turn
RECURSIVE TensorSize(_, _)
TensorSize(shape, size) ==
    IF shape = << >> THEN size
    ELSE TensorSize(Tail(shape), Times(size, ResolveDim(Head(shape))))

\* The objects a return or an exception leaves alive: every object of the
\* call is a local that owns what it holds, so its destructor releases it.
Unwind_KeepSession(stack) == SelectSeq(stack, LAMBDA r : r \in {"env", "session"})
Unwind(stack) == << >>

\* n objects of one kind
Objects(kind, n) == [k \in 1..n |-> kind]

\* What the steps of run_onnx_inference leave alone.
CallerFrame == <<argv, files, now, timestamp, warmup_seconds, silence_seconds,
                 measurement_seconds, warmup_iterations, warmup_elapsed_ms, start,
                 deadline, measurement_start, measurement_deadline,
                 measurement_elapsed_ms, first_check, us_per_inference,
                 total_time_sec, throughput, reset_result, export_result,
                 reset_requests, sleeps, onnx_model>>

\* The Measurement loop of a validated run, entered with the model chosen.
InvokerInit ==
    /\ pc = "loop"
    /\ argv = <<"model.onnx", <<"0">>, <<"0">>, <<"1">>>>
    /\ files = {[path |-> <<MODEL_BASE_PATH, "model.onnx">>, content |-> <<"onnx">>]}
    /\ now = 0
    /\ timestamp = "20261105_101500"
    /\ warmup_seconds = 0
    /\ silence_seconds = 0
    /\ measurement_seconds = 1
    /\ warmup_iterations = 0
    /\ warmup_elapsed_ms = 0
    /\ start = 0
    /\ deadline = 0
    /\ measurement_iterations = 0
    /\ measurement_start = 0
    /\ measurement_deadline = Deadline(0, 1)
    /\ measurement_elapsed_ms = 0
    /\ first_check = << >>
    /\ us_per_inference = NoDouble
    /\ total_time_sec = NoDouble
    /\ throughput = NoDouble
    /\ reset_result = <<0>>
    /\ export_result = << >>
    /\ exit_status = << >>
    /\ out = << >>
    /\ inference_calls = 0
    /\ engine_errors = 0
    /\ reset_requests = 1
    /\ sleeps = <<STATS_RESET_DELAY_MS>>
    /\ onnx_model \in Models
    /\ live = << >>
    /\ input_shapes = << >>
    /\ input_data_storage = << >>
    /\ input_tensors = << >>
    /\ engine_runs = << >>

\* while (clock::now() < measurement_deadline) { try { run_onnx_inference(...):
\* the next call is entered, Ort::Env and Ort::SessionOptions constructed; or
\* the deadline is reached.
CallEnter ==
    /\ pc = "loop"
    /\ \/ /\ inference_calls < MaxCalls
          /\ inference_calls' = inference_calls + 1
          /\ live' = <<"env", "session_options">>
          /\ pc' = "session"
       \/ /\ pc' = "loop_end"
          /\ UNCHANGED <<inference_calls, live>>
    /\ UNCHANGED <<CallerFrame, measurement_iterations, engine_errors, out, exit_status,
                   input_shapes, input_data_storage, input_tensors, engine_runs>>

\* return; or the closing brace of run_onnx_inference, then ++iterations
CallReturns_Uncounted(alive) ==
    /\ live' = Unwind(alive)
    /\ input_shapes' = << >>
    /\ input_data_storage' = << >>
    /\ input_tensors' = << >>
    /\ pc' = "loop"
    /\ UNCHANGED <<measurement_iterations, engine_errors, exit_status>>

CallReturns(alive) ==
    /\ live' = Unwind(alive)
    /\ input_shapes' = << >>
    /\ input_data_storage' = << >>
    /\ input_tensors' = << >>
    /\ measurement_iterations' = measurement_iterations + 1
    /\ pc' = "loop"
    /\ UNCHANGED <<engine_errors, exit_status>>

\* An Ort::Exception leaves run_onnx_inference and is caught by main().
CallThrows ==
    /\ live' = Unwind(live)
    /\ input_shapes' = << >>
    /\ input_data_storage' = << >>
    /\ input_tensors' = << >>
    /\ InferenceFailed("error: measurement")
    /\ UNCHANGED measurement_iterations

\* Ort::Session session(env, model_path, session_options); allocator
CreateSession ==
    /\ pc = "session"
    /\ IF onnx_model.loadable
       THEN /\ live' = live \o <<"session", "allocator">>
            /\ pc' = "input_count"
            /\ UNCHANGED <<input_shapes, input_data_storage, input_tensors,
                           measurement_iterations, engine_errors, out, exit_status>>
       ELSE CallThrows
    /\ UNCHANGED <<CallerFrame, inference_calls, engine_runs>>

\* if (num_input_nodes == 0) { warning; return; }
NoInputs(n) == n = 0

CheckInputCount ==
    /\ pc = "input_count"
    /\ IF NoInputs(num_input_nodes)
       THEN /\ out' = Append(out, "warning: no input nodes")
            /\ CallReturns(live)
       ELSE /\ live' = live \o <<"memory_info">>
            /\ pc' = "input"
            /\ UNCHANGED <<input_shapes, input_data_storage, input_tensors,
                           measurement_iterations, engine_errors, out, exit_status>>
    /\ UNCHANGED <<CallerFrame, inference_calls, engine_runs>>

\* One round of for (size_t i = 0; i < num_input_nodes; ++i): the name, the
\* resolved shape, the random values and the tensor of input i; the engine
\* accepts the tensor or throws.
PrepareInput ==
    /\ pc = "input"
    /\ LET i == Len(input_tensors) + 1
           declared == onnx_model.inputs[i]
           input_shape == ResolveShape(declared)
           input_tensor_size == TensorSize(declared, SizeT(1))
       IN  \E outcome \in InferenceOutcomes :
              IF outcome = "ok"
              THEN /\ input_data_storage' = Append(input_data_storage, input_tensor_size)
                   /\ input_shapes' = Append(input_shapes, input_shape)
                   /\ input_tensors' = Append(input_tensors,
                                              [p_data_element_count |-> input_tensor_size,
                                               shape |-> input_shape,
                                               shape_len |-> Len(input_shape)])
                   /\ live' = live \o <<"input_name", "input_data", "input_tensor">>
                   /\ pc' = IF i < num_input_nodes THEN "input" ELSE "outputs"
                   /\ UNCHANGED <<measurement_iterations, engine_errors, out, exit_status>>
              ELSE CallThrows
    /\ UNCHANGED <<CallerFrame, inference_calls, engine_runs>>

\* for (size_t i = 0; i < num_output_nodes; i++): the output names
PrepareOutputs ==
    /\ pc = "outputs"
    /\ live' = live \o Objects("output_name", num_output_nodes)
    /\ pc' = "run"
    /\ UNCHANGED <<CallerFrame, inference_calls, engine_runs, measurement_iterations,
                   engine_errors, out, exit_status, input_shapes, input_data_storage,
                   input_tensors>>

\* auto output_tensors = session.Run(...); then the function ends
RunSession ==
    /\ pc = "run"
    /\ engine_runs' = Append(engine_runs, [inputs |-> Len(input_tensors),
                                          outputs |-> num_output_nodes])
    /\ \E outcome \in InferenceOutcomes :
          IF outcome = "ok"
          THEN /\ CallReturns(live \o Objects("output_tensor", num_output_nodes))
               /\ UNCHANGED out
          ELSE CallThrows
    /\ UNCHANGED <<CallerFrame, inference_calls>>

InvokerNext ==
    \/ CallEnter
    \/ CreateSession
    \/ CheckInputCount
    \/ PrepareInput
    \/ PrepareOutputs
    \/ RunSession

InvokerSpec == InvokerInit /\ [][InvokerNext]_vars

(***************************************************************************)
(* Vocabulary of the properties                                            *)
(***************************************************************************)
Exited == pc = "exited"

Said(msg) == \E i \in 1..Len(out) : out[i] = msg

LastSaid == IF out = << >> THEN "" ELSE out[Len(out)]

\* The command line is one main() rejects: a wrong number of arguments, a
\* negative warmup or silence duration, a measurement duration that is not
\* positive, or a model file that is not in the base directory.
UsageError ==
    \/ Len(argv) # 4
    \/ atoi(argv[2]) < 0
    \/ atoi(argv[3]) < 0
    \/ atoi(argv[4]) <= 0
    \/ [path |-> <<MODEL_BASE_PATH, argv[1]>>, content |-> <<"onnx">>] \notin files

\* The phases in the order the controller is to go through them; each is
\* entered where main() announces it, Done where Measurement is completed.
PhaseMarks == <<"phase: warmup", "phase: silence", "phase: reset",
                "phase: measurement", "measurement completed">>
IsPhaseMark(msg) == \E i \in 1..Len(PhaseMarks) : PhaseMarks[i] = msg
PhaseRank(msg) == CHOOSE i \in 1..Len(PhaseMarks) : PhaseMarks[i] = msg
PhasesEntered == SelectSeq(out, IsPhaseMark)

\* The stabilization reset has finished: requested, answered, and the fixed
\* delay slept.
ResetFinished ==
    /\ reset_requests = 1
    /\ reset_result # << >>
    /\ sleeps # << >>
    /\ sleeps[Len(sleeps)] = STATS_RESET_DELAY_MS

\* The persisted records: the data rows of the CSV files written in full.
PersistedRows == {f.content[2] : f \in {g \in CsvFiles : Len(g.content) = 2}}

\* The Measurement loop ran until the clock reached its deadline.
MeasurementRanToDeadline ==
    /\ Said("measurement completed")
    /\ now >= measurement_deadline
    /\ measurement_elapsed_ms >= 0

(***************************************************************************)
(* C1: in every run that passes validation the phases are entered only in  *)
(* the order Warmup, Silence, StabilizationReset, Measurement, Done: none   *)
(* is entered twice, none is entered after a later one, and Measurement is  *)
(* not entered before the stabilization reset has finished.                 *)
(***************************************************************************)
C1_PhaseOrder ==
    LET entered == PhasesEntered
    IN  /\ \A i \in 1..Len(entered) : \A j \in 1..Len(entered) :
              i < j => PhaseRank(entered[i]) < PhaseRank(entered[j])
        /\ Said("phase: measurement") => ResetFinished
        /\ Said("measurement completed") => Said("phase: measurement")
        /\ pc \in {"measurement_check", "measurement_call", "measurement_end"}
              => LastSaid = "phase: measurement"

C1_Witness ==
    /\ Exited
    /\ PhasesEntered = PhaseMarks

(***************************************************************************)
(* C2: an engine error raised by an inference call during Warmup or        *)
(* Measurement ends the run at once with a non-zero exit status: the        *)
(* failing call is the last inference call, and no stabilization reset (for *)
(* an error in Warmup), no results summary and no persisted record follows. *)
(***************************************************************************)
C2_EngineErrorAborts ==
    engine_errors > 0 =>
        /\ engine_errors = 1
        /\ Exited
        /\ exit_status # << >>
        /\ exit_status[1] # 0
        /\ LastSaid \in {"error: warmup", "error: measurement"}
        /\ inference_calls = warmup_iterations + measurement_iterations + 1
        /\ ~Said("results")
        /\ export_result = << >>
        /\ CsvFiles = {}
        /\ LastSaid = "error: warmup" =>
              /\ reset_requests = 0
              /\ sleeps = << >>
              /\ ~Said("phase: measurement")

C2_Witness ==
    /\ Exited
    /\ LastSaid = "error: measurement"
    /\ warmup_iterations > 0
    /\ measurement_iterations > 0
    /\ CsvFiles = {}

(***************************************************************************)
(* C3: a measurement iteration count of 0 is never the divisor of the      *)
(* latency computation: when the Measurement loop ended with no iteration   *)
(* the metrics hold no result of a division by zero.                        *)
(***************************************************************************)
C3_ZeroIterationsGuarded ==
    (us_per_inference # NoDouble /\ measurement_iterations = 0)
        => us_per_inference.kind \notin {"inf", "nan"}

(***************************************************************************)
(* C4: every usage error is detected before any phase starts: the run      *)
(* exits with status 1 and makes no inference call, no stabilization reset, *)
(* no results summary and no file.                                          *)
(***************************************************************************)
C4_UsageErrorBeforePhases ==
    UsageError =>
        /\ pc \in {"start", "parse", "check_model", "exited"}
        /\ Exited => exit_status = <<1>>
        /\ PhasesEntered = << >>
        /\ inference_calls = 0
        /\ reset_requests = 0
        /\ sleeps = << >>
        /\ ~Said("banner")
        /\ ~Said("results")
        /\ CsvFiles = {}
        /\ Cardinality(files) = 1

C4_Witness ==
    /\ Exited
    /\ LastSaid = "error: model not found"
    /\ warmup_seconds > 0
    /\ measurement_seconds > 0

(***************************************************************************)
(* C5: the exit status tells the outcome of the run: 1 exactly for a usage *)
(* error, a non-zero status other than 1 exactly for an engine error, 0     *)
(* exactly when Measurement ran to its deadline with no engine error.       *)
(***************************************************************************)
C5_ExitStatusClassifies ==
    /\ ~Exited => exit_status = << >>
    /\ Exited =>
          /\ Len(exit_status) = 1
          /\ exit_status[1] = 1 <=> UsageError
          /\ exit_status[1] \notin {0, 1} <=> engine_errors > 0
          /\ exit_status[1] = 0 <=> (engine_errors = 0 /\ MeasurementRanToDeadline)

C5_Witness ==
    /\ Exited
    /\ engine_errors > 0
    /\ exit_status = <<255>>

(***************************************************************************)
(* C6 as stated: an invocation with only <model_filename>                  *)
(* <duration_seconds> is accepted and runs the Measurement phase instead of *)
(* being rejected as a usage error.                                         *)
(***************************************************************************)
LegacyInvocation ==
    /\ Len(argv) = 2
    /\ atoi(argv[2]) > 0
    /\ [path |-> <<MODEL_BASE_PATH, argv[1]>>, content |-> <<"onnx">>] \in files

C6_LegacyAccepted ==
    (LegacyInvocation /\ Exited) =>
        /\ ~Said("usage")
        /\ Said("phase: measurement")

(***************************************************************************)
(* C6 as amended: an invocation with only the two positional arguments is  *)
(* rejected as a usage error, with exit status 1 and no phase entered.      *)
(* Warmup and Silence are skipped by the four-argument form with            *)
(* warmup_seconds = 0 and silence_seconds = 0, which goes straight to the   *)
(* stabilization reset and runs Measurement for measurement_seconds.        *)
(***************************************************************************)
C6_LegacyRejected ==
    /\ (Len(argv) # 4 /\ pc # "start") =>
          /\ Exited
          /\ exit_status = <<1>>
          /\ out = <<"usage">>
          /\ inference_calls = 0
          /\ reset_requests = 0
    /\ (Len(argv) = 4 /\ Said("phase: measurement")
          /\ atoi(argv[2]) = 0 /\ atoi(argv[3]) = 0) =>
          /\ out[1] = "banner"
          /\ out[2] = "phase: reset"
          /\ out[4] = "phase: measurement"
          /\ measurement_deadline = measurement_start + Seconds(atoi(argv[4]))

C6_Witness ==
    /\ LegacyInvocation
    /\ Exited
    /\ exit_status = <<1>>

(***************************************************************************)
(* C7 as stated: for every measurement_seconds = S > 0, when the           *)
(* Measurement phase completes with every inference call having succeeded,  *)
(* its recorded elapsed time is >= 1000 * S ms and its iteration count is   *)
(* > 0.                                                                     *)
(***************************************************************************)
C7_ElapsedAndIterations ==
    Said("measurement completed") =>
        /\ measurement_elapsed_ms >= MsPerSecond * measurement_seconds
        /\ measurement_iterations > 0

(***************************************************************************)
(* C7 as amended: when the Measurement phase completes, its recorded       *)
(* elapsed time is >= 1000 * S ms; its iteration count is > 0 exactly when  *)
(* the first clock reading of the loop was below the deadline, and is 0     *)
(* when the clock had already reached the deadline at that reading.         *)
(***************************************************************************)
C7_ElapsedAtLeastConfigured ==
    Said("measurement completed") =>
        /\ measurement_seconds > 0
        /\ measurement_elapsed_ms >= MsPerSecond * measurement_seconds
        /\ Len(first_check) = 1
        /\ measurement_iterations > 0 <=> first_check[1] < measurement_deadline

C7_Witness ==
    /\ Said("measurement completed")
    /\ measurement_seconds = MaxSeconds
    /\ measurement_iterations > MaxIter
    /\ measurement_elapsed_ms > MsPerSecond * measurement_seconds

(***************************************************************************)
(* C8: with warmup_seconds = 0 and silence_seconds = 0, Warmup and Silence *)
(* are no-ops: no inference call precedes the stabilization reset, the      *)
(* fixed reset pause is the only delay before Measurement, and the record   *)
(* has warmup_iterations = 0 and warmup_elapsed_ms = 0.                     *)
(***************************************************************************)
C8_ZeroDurationsSkipPhases ==
    (pc \notin {"start", "parse"} /\ ~UsageError
        /\ warmup_seconds = 0 /\ silence_seconds = 0) =>
        /\ ~Said("phase: warmup")
        /\ ~Said("phase: silence")
        /\ reset_requests = 0 => inference_calls = 0
        /\ inference_calls = measurement_iterations + engine_errors
        /\ Said("phase: measurement") =>
              /\ sleeps = <<STATS_RESET_DELAY_MS>>
              /\ measurement_start = Milliseconds(STATS_RESET_DELAY_MS)
        /\ warmup_iterations = 0
        /\ warmup_elapsed_ms = 0
        /\ \A row \in PersistedRows :
              /\ row[7] = 0
              /\ row[8] = [text |-> "finite", whole |-> 0, milli |-> 0]

C8_Witness ==
    /\ Exited
    /\ Len(argv) = 4
    /\ atoi(argv[2]) = 0
    /\ atoi(argv[3]) = 0
    /\ measurement_iterations > 0
    /\ PersistedRows # {}

(***************************************************************************)
(* C9: a failed stabilization reset never aborts the run: after the        *)
(* request, failed or not, the controller sleeps the fixed delay and enters *)
(* Measurement; the exit status and the persisted record are what the       *)
(* inference calls and the clock alone make them.                           *)
(***************************************************************************)
C9_ResetFailureNotFatal ==
    (reset_result # << >> /\ reset_result # <<0>>) =>
        /\ Said("warning: reset failed")
        /\ pc # "reset_delay" => ResetFinished
        /\ pc \notin {"reset_delay", "measurement"} => Said("phase: measurement")
        /\ Exited => exit_status = <<IF engine_errors > 0 THEN 255 ELSE 0>>
        /\ Exited /\ engine_errors = 0 => MeasurementRanToDeadline
        /\ \A row \in PersistedRows :
              row = CsvRow(model_filename, timestamp, measurement_iterations,
                           measurement_elapsed_ms,
                           UsPerInference(measurement_elapsed_ms, measurement_iterations),
                           TotalTimeSec(measurement_elapsed_ms),
                           warmup_iterations, warmup_elapsed_ms)

C9_Witness ==
    /\ Exited
    /\ reset_result = <<32512>>
    /\ exit_status = <<0>>
    /\ measurement_iterations > 0
    /\ PersistedRows # {}

(***************************************************************************)
(* C10: persistence is best-effort: when the record file cannot be opened  *)
(* or written, the run that completed Measurement with no engine error has  *)
(* already rendered its results summary and still exits with status 0; no   *)
(* complete record is on disk.                                              *)
(***************************************************************************)
C10_PersistenceBestEffort ==
    export_result = <<FALSE>> =>
        /\ engine_errors = 0
        /\ MeasurementRanToDeadline
        /\ Len(out) >= 2
        /\ out[Len(out) - 1] = "results"
        /\ LastSaid \in {"warning: could not create file", "warning: error writing file"}
        /\ LastSaid = "warning: could not create file" => CsvFiles = {}
        /\ PersistedRows = {}
        /\ pc \in {"return", "exited"}
        /\ Exited => exit_status = <<0>>

C10_Witness ==
    /\ Exited
    /\ export_result = <<FALSE>>
    /\ CsvFiles = {}
    /\ measurement_iterations > 0

(***************************************************************************)
(* Vocabulary of the properties of one inference call                      *)
(***************************************************************************)
\* x written in w bytes, w at least the width of x
Widen(x, w) == x \o [k \in 1..(w - Len(x)) |-> 0]

\* A width no product of the dimensions of the shape exceeds.
ExactBytes(shape) == SizeTBytes + 3 * Len(shape)

\* The product of the dimensions of a shape, as a number.
RECURSIVE ProductFrom(_, _)
ProductFrom(shape, acc) ==
    IF shape = << >> THEN acc ELSE ProductFrom(Tail(shape), Times(acc, Head(shape)))

Product(shape) == ProductFrom(shape, Bytes(1, ExactBytes(shape)))

\* The inputs prepared so far by the call in progress.
Prepared == 1..Len(input_tensors)

(***************************************************************************)
(* C11: for every input signature, each dynamic (negative) dimension is    *)
(* replaced by exactly 1 and every concrete positive dimension is kept,    *)
(* and the element count of the synthesized buffer equals the product of   *)
(* the resolved dimensions.                                                *)
(***************************************************************************)
C11_ShapeAndCount ==
    \A k \in Prepared :
        LET declared == onnx_model.inputs[k]
            resolved == input_shapes[k]
        IN  /\ Len(resolved) = Len(declared)
            /\ \A j \in 1..Len(declared) :
                  /\ declared[j] < 0 => resolved[j] = 1
                  /\ declared[j] > 0 => resolved[j] = declared[j]
            /\ input_tensors[k].shape = resolved
            /\ input_tensors[k].p_data_element_count = input_data_storage[k]
            /\ Widen(input_data_storage[k], ExactBytes(resolved)) = Product(resolved)

\* The image batch of unknown size becomes one image of 150528 values.
C11_ImageBatch ==
    /\ Prepared # {}
    /\ onnx_model.inputs[1] = <<0 - 1, 3, 224, 224>>
    /\ input_shapes[1] = <<1, 3, 224, 224>>
    /\ input_data_storage[1] = SizeT(150528)

\* The huge shape has been given a buffer of no element.
C11_HugeShapeEmptyBuffer ==
    /\ Prepared # {}
    /\ onnx_model.inputs[1] = HugeShape
    /\ input_shapes[1] = HugeShape
    /\ input_data_storage[1] = SizeT(0)

\* The model loads and declares no input.
ZeroInputModel == onnx_model.loadable /\ NoInputs(num_input_nodes)

\* A call of run_onnx_inference is in progress.
InCall == pc \in {"session", "input_count", "input", "outputs", "run"}

\* The calls that have returned without an exception.
ReturnedCalls == inference_calls - engine_errors - (IF InCall THEN 1 ELSE 0)

(***************************************************************************)
(* C12: when the model declares zero inputs, an inference call makes no    *)
(* engine execution request and returns without error, the enclosing loop  *)
(* counts that call as one iteration, and the run is not aborted.          *)
(***************************************************************************)
C12_ZeroInputsCounted ==
    ZeroInputModel =>
        /\ engine_runs = << >>
        /\ engine_errors = 0
        /\ exit_status = << >>
        /\ pc \notin {"input", "outputs", "run", "return", "exited"}
        /\ measurement_iterations = ReturnedCalls
        /\ pc \in {"loop", "loop_end"} => measurement_iterations = inference_calls
        /\ Len(SelectSeq(out, LAMBDA m : m = "warning: no input nodes")) = measurement_iterations

\* The loop has ended after calls on a zero-input model, each one counted.
C12_Witness ==
    /\ ZeroInputModel
    /\ pc = "loop_end"
    /\ inference_calls = MaxCalls
    /\ measurement_iterations = MaxCalls
    /\ engine_runs = << >>

(***************************************************************************)
(* C17: every inference call is self-contained: the execution context,     *)
(* the input tensors and the output tensors it creates are all released by *)
(* the time the call returns, whether it returns normally, returns early   *)
(* for a zero-input model or raises an engine error, so the number of live *)
(* engine resources between calls is the same after any number of          *)
(* iterations.                                                             *)
(***************************************************************************)
C17_CallsSelfContained ==
    ~InCall =>
        /\ live = << >>
        /\ input_shapes = << >>
        /\ input_data_storage = << >>
        /\ input_tensors = << >>

\* Between two calls, after a call that ran the model on two input tensors.
C17_Witness ==
    /\ pc = "loop"
    /\ measurement_iterations = 1
    /\ engine_runs = <<[inputs |-> 2, outputs |-> 2]>>
    /\ live = << >>

(***************************************************************************)
(* Vocabulary of the properties of the timed loops                         *)
(***************************************************************************)
WarmupLoop == {"warmup_check", "warmup_call", "warmup_end"}
MeasurementLoop == {"measurement_check", "measurement_call", "measurement_end"}

\* The inference calls that have returned without an exception.
Returned == inference_calls - engine_errors

\* In every state of a timed loop the deadline is the start reading plus the
\* configured duration, a call is about to start only below the deadline and
\* the loop has ended only at or past it; the counters add up to the calls
\* that returned without error.
C13_LoopState ==
    /\ pc \in WarmupLoop => deadline = start + Seconds(warmup_seconds)
    /\ pc \in MeasurementLoop =>
          measurement_deadline = measurement_start + Seconds(measurement_seconds)
    /\ pc = "warmup_call" => now < deadline
    /\ pc = "warmup_end" => now >= deadline
    /\ pc = "measurement_call" => now < measurement_deadline
    /\ pc = "measurement_end" => now >= measurement_deadline
    /\ pc \in WarmupLoop => warmup_iterations = Returned
    /\ pc \in MeasurementLoop => measurement_iterations = Returned - warmup_iterations

\* In every step of a timed loop the start reading and the deadline stay, the
\* loop check decides by the reading alone, and a counter moves exactly when
\* a call of its phase returns without error.
C13_LoopStep ==
    /\ pc \in WarmupLoop => start' = start /\ deadline' = deadline
    /\ pc \in MeasurementLoop =>
          /\ measurement_start' = measurement_start
          /\ measurement_deadline' = measurement_deadline
    /\ pc = "warmup_check" =>
          pc' = IF now >= deadline THEN "warmup_end" ELSE "warmup_call"
    /\ pc = "measurement_check" =>
          pc' = IF now >= measurement_deadline THEN "measurement_end"
                ELSE "measurement_call"
    /\ inference_calls' # inference_calls =>
          pc \in {"warmup_call", "measurement_call"}
    /\ warmup_iterations' - warmup_iterations =
          IF pc = "warmup_call" THEN Returned' - Returned ELSE 0
    /\ measurement_iterations' - measurement_iterations =
          IF pc = "measurement_call" THEN Returned' - Returned ELSE 0

(***************************************************************************)
(* C13: in the Warmup and Measurement loops the deadline is computed once  *)
(* at phase entry as start_time + configured_duration and never changes;   *)
(* an inference call is started only after a clock reading strictly below  *)
(* the deadline, the phase ends at the first loop check whose reading is   *)
(* at or past the deadline, and at every point the phase's iteration       *)
(* counter equals the number of inference calls of that phase that have    *)
(* returned without error.                                                 *)
(***************************************************************************)
C13_DeadlineLoop == []C13_LoopState /\ [][C13_LoopStep]_vars

\* Both loops have run calls and the Measurement loop has just ended at a
\* check that read the deadline exactly.
C13_Witness ==
    /\ pc = "measurement_end"
    /\ now = measurement_deadline
    /\ warmup_iterations >= 1
    /\ measurement_iterations >= 1
    /\ engine_errors = 0

\* The steps of Silence and StabilizationReset are taken from these places.
QuietPhases == {"silence", "reset", "reset_delay"}

\* Every persisted record carries the warmup values of the run.
C14_RecordState ==
    \A row \in PersistedRows :
        /\ row[7] = warmup_iterations
        /\ row[8] = Fixed3(DoubleDiv(warmup_elapsed_ms, 1))

\* Silence and StabilizationReset leave the calls and the counters alone, and
\* the warmup values move only in the Warmup loop and at its end.
C14_QuietStep ==
    /\ pc \in QuietPhases =>
          UNCHANGED <<inference_calls, engine_errors, warmup_iterations,
                      warmup_elapsed_ms, measurement_iterations>>
    /\ pc # "warmup_call" => warmup_iterations' = warmup_iterations
    /\ pc # "warmup_end" => warmup_elapsed_ms' = warmup_elapsed_ms

(***************************************************************************)
(* C14: the Silence and StabilizationReset phases perform no inference     *)
(* call and leave the warmup iteration count, the warmup elapsed time and  *)
(* the measurement iteration count unchanged; the warmup values persisted  *)
(* in the record are exactly those that held when the Warmup phase ended.  *)
(***************************************************************************)
C14_QuietPhases == []C14_RecordState /\ [][C14_QuietStep]_vars

\* A record persisted after a Warmup with calls, a Silence that slept and a
\* Measurement with a different number of calls.
C14_Witness ==
    /\ PersistedRows # {}
    /\ warmup_iterations >= 1
    /\ warmup_elapsed_ms > 0
    /\ measurement_iterations # warmup_iterations
    /\ silence_seconds = 1
    /\ Said("silence completed")

\* At most one record file, written only after a Measurement that ran to its
\* deadline with no engine error; a file the export reported written holds
\* the header and one row with the counters of the run.
C15_RecordState ==
    /\ Cardinality(CsvFiles) <= 1
    /\ CsvFiles # {} =>
          /\ MeasurementRanToDeadline
          /\ engine_errors = 0
          /\ export_result # << >>
    /\ export_result = <<TRUE>> =>
          \E f \in CsvFiles :
              /\ CsvFiles = {f}
              /\ f.path = OutputFile(model_filename, timestamp)
              /\ Len(f.content) = 2
              /\ f.content[1] = CsvHeader
              /\ f.content[2][3] = measurement_iterations
              /\ f.content[2][7] = warmup_iterations

\* The files change in one step of the run only, the export, and the
\* counters do not move from the export on.
C15_RecordStep ==
    /\ files' # files => pc = "export" /\ export_result = << >>
    /\ pc \in {"export", "return", "exited"} =>
          UNCHANGED <<measurement_iterations, warmup_iterations>>

(***************************************************************************)
(* C15: in every run the Benchmark Record is persisted at most once, and   *)
(* only after the Measurement phase has run to its deadline without an     *)
(* engine error; a persisted file holds the fixed header row and exactly   *)
(* one data row whose measurement_iterations and warmup_iterations equal   *)
(* the final counters of that run.                                         *)
(***************************************************************************)
C15_PersistedOnce == []C15_RecordState /\ [][C15_RecordStep]_vars

\* A finished run whose record was written in full.
C15_Witness ==
    /\ Exited
    /\ export_result = <<TRUE>>
    /\ Cardinality(CsvFiles) = 1
    /\ PersistedRows # {}
    /\ measurement_iterations = MaxIter

\* A step that leaves a timed phase: out of the Warmup loop, out of the
\* Measurement loop, or out of the Silence wait.
C16_PhaseExit ==
    /\ (pc \in WarmupLoop /\ pc' \notin WarmupLoop) =>
          \/ pc = "warmup_end" /\ now >= deadline /\ pc' = "silence"
          \/ pc = "warmup_call" /\ engine_errors' = engine_errors + 1 /\ pc' = "exited"
    /\ (pc \in MeasurementLoop /\ pc' \notin MeasurementLoop) =>
          \/ pc = "measurement_end" /\ now >= measurement_deadline /\ pc' = "metrics"
          \/ /\ pc = "measurement_call"
             /\ engine_errors' = engine_errors + 1
             /\ pc' = "exited"
    /\ (pc = "silence" /\ PhaseEnabled(silence_seconds)) =>
          now' - now = Seconds(silence_seconds)

(***************************************************************************)
(* C16: every run terminates: assuming the monotonic clock keeps           *)
(* advancing, every inference call returns (normally or with an engine     *)
(* error) and every sleep and external call returns, the controller        *)
(* eventually reaches Done, the aborted terminal state or a validation     *)
(* exit; a timed phase ends only by reaching its deadline or by a fatal     *)
(* inference error.                                                        *)
(***************************************************************************)
C16_Terminates == <>Exited /\ [][C16_PhaseExit]_vars

\* A run that went through all three phases, calls included, and reached Done.
C16_Witness ==
    /\ Exited
    /\ exit_status = <<0>>
    /\ warmup_iterations >= 1
    /\ measurement_iterations >= 1
    /\ silence_seconds = 1
    /\ now >= measurement_deadline

(***************************************************************************)
(* C18: whenever the metrics step divides by the measurement elapsed time, *)
(* that elapsed time is > 0: in every reachable state after the            *)
(* Measurement loop ends, measurement_elapsed_ms >= 1000 *                 *)
(* measurement_seconds >= 1000, so the throughput divisor is never zero    *)
(* even though the code has no explicit check of it.                       *)
(***************************************************************************)
C18_DivisorPositive ==
    /\ Said("measurement completed") =>
          /\ measurement_elapsed_ms >= MsPerSecond * measurement_seconds
          /\ MsPerSecond * measurement_seconds >= MsPerSecond
    /\ pc = "metrics" => measurement_elapsed_ms > 0
    /\ throughput # NoDouble =>
          /\ throughput.den = measurement_elapsed_ms
          /\ throughput.den > 0
          /\ throughput.kind = "finite"

\* The throughput has been computed from the least elapsed time a run of one
\* second can measure.
C18_Witness ==
    /\ throughput # NoDouble
    /\ throughput.den = MsPerSecond
    /\ measurement_seconds = 1
    /\ measurement_iterations >= 1

\* The places of main() before the reset request.
BeforeReset == {"start", "parse", "check_model", "banner", "warmup", "silence", "reset"}
                  \cup WarmupLoop

\* The run passed validation and finished Warmup without an engine error.
WarmupFinished == pc \notin BeforeReset /\ (Exited => Said("phase: reset"))

\* The reset is requested at most once, not before Warmup is over and not
\* after Measurement has started; the Measurement start reading lies the
\* Warmup time, the Silence time and the fixed delay after the Warmup start.
C19_ResetState ==
    /\ reset_requests <= 1
    /\ pc \in BeforeReset => reset_requests = 0
    /\ WarmupFinished => reset_requests = 1 /\ reset_result # << >>
    /\ reset_requests = 0 => measurement_iterations = 0 /\ ~Said("phase: measurement")
    /\ pc \in MeasurementLoop => ResetFinished
    /\ Said("phase: measurement") =>
          /\ ResetFinished
          /\ measurement_start >=
                (IF PhaseEnabled(warmup_seconds)
                 THEN start + Milliseconds(warmup_elapsed_ms) ELSE 0)
                + Seconds(silence_seconds) + Milliseconds(STATS_RESET_DELAY_MS)

\* The request is the step taken from the reset place, whatever Silence
\* did; the fixed delay follows it, and the Measurement start reading is the
\* first thing after the delay; calls are made before the request by Warmup
\* only and after it by Measurement only.
C19_ResetStep ==
    /\ reset_requests' # reset_requests =>
          pc = "reset" /\ reset_requests' = reset_requests + 1
    /\ pc = "silence" => pc' = "reset"
    /\ pc = "reset" =>
          /\ reset_requests' = 1
          /\ pc' = "reset_delay"
          /\ inference_calls' = inference_calls
    /\ pc = "reset_delay" =>
          /\ now' = now + Milliseconds(STATS_RESET_DELAY_MS)
          /\ pc' = "measurement"
    /\ pc = "measurement" => measurement_start' = now
    /\ inference_calls' # inference_calls =>
          \/ pc = "warmup_call" /\ reset_requests = 0
          \/ pc = "measurement_call" /\ reset_requests = 1

(***************************************************************************)
(* C19: in every run that passes validation and finishes Warmup without an *)
(* engine error, the external stabilization reset is requested exactly     *)
(* once, also when silence_seconds = 0; it happens after the last warmup   *)
(* inference call has returned and before the first measurement inference  *)
(* call starts, and the measurement start time is taken only after the     *)
(* fixed post-reset delay has elapsed.                                     *)
(***************************************************************************)
C19_ResetOnce == []C19_ResetState /\ [][C19_ResetStep]_vars

\* A run without Silence made Warmup calls, then the one reset request, then
\* Measurement calls.
C19_Witness ==
    /\ silence_seconds = 0
    /\ warmup_iterations >= 1
    /\ reset_requests = 1
    /\ sleeps = <<STATS_RESET_DELAY_MS>>
    /\ measurement_iterations >= 1
    /\ pc = "measurement_check"

====
